---- MODULE Spec2Model ----
(***************************************************************************)
(* title-bot: the group title automation engine.                           *)
(*                                                                         *)
(* The model follows src/src/group.rs (Group, DataStore), src/src/lib.rs   *)
(* (the command handlers and handle_scheduled) and src/src/bot.rs          *)
(* (Bot::is_admin).  Every handler is an asynchronous task; a task is      *)
(* suspended exactly at its awaits on the key/value store and on the       *)
(* Telegram API, so each action below is one such I/O together with the    *)
(* local computation that precedes or follows it.                          *)
(***************************************************************************)
EXTENDS Integers, Sequences, FiniteSets, TLC

(***************************************************************************)
(* Bounds of the model.                                                    *)
(***************************************************************************)
MaxRequests == 2      \* commands received over a behaviour
MaxTicks == 1         \* scheduled events over a behaviour
MaxFaults == 1        \* failed requests to the store or to Telegram
MaxPages == 3         \* pages of one listing of the store

(***************************************************************************)
(* Strings.  A string is a sequence of pieces.  A piece is either a run of *)
(* literal text, which knows how many characters and how many UTF-8 bytes  *)
(* it holds, or a placeholder "{key}" of the template language.            *)
(***************************************************************************)
Text(s, chars, bytes) == [ph |-> FALSE, s |-> s, chars |-> chars, bytes |-> bytes]
Ph(key) == [ph |-> TRUE, s |-> key, chars |-> Len(key) + 2, bytes |-> Len(key) + 2]

RECURSIVE SumOver(_, _)
SumOver(str, field) ==
    IF str = <<>> THEN 0
    ELSE (IF field = "chars" THEN Head(str).chars ELSE Head(str).bytes)
         + SumOver(Tail(str), field)

\* str.chars().count()
CharLen(str) == SumOver(str, "chars")
\* str.len(): the length in bytes
ByteLen(str) == SumOver(str, "bytes")

Ascii(s) == <<Text(s, Len(s), Len(s))>>

TeamChat == Ascii("Team Chat")
Empty == <<>>
\* 300 ASCII characters
Long300 == <<Text("x*300", 300, 300)>>
\* 100 characters of three bytes each
Wide100 == <<Text("w*100", 100, 300)>>
HourTpl == <<Ph("H")>>
BogusTpl == <<Ph("bogus")>>
DateTpl == <<Ph("Y"), Text("-", 1, 1), Ph("m"), Text("-", 1, 1), Ph("d")>>
Bar == Ascii("|")
Dash == Ascii("-")

\* Option<T>
None == <<>>
Some(v) == <<v>>
unwrap(o) == o[1]

(***************************************************************************)
(* Time.  Date::now() yields an instant (UTC); Group::get_time moves it    *)
(* into the group's time zone, falling back to UTC when the stored name    *)
(* does not parse.                                                         *)
(***************************************************************************)
Instants ==
    { [year |-> 2024, month |-> 3, day |-> 5, hour |-> 10],
      [year |-> 2024, month |-> 3, day |-> 5, hour |-> 20] }

\* the names chrono_tz parses, with their offset from UTC in hours
TzNames == {"UTC", "Asia/Tokyo"}
TzOffset(tz) == IF tz = "Asia/Tokyo" THEN 9 ELSE 0

parse_tz_unchecked(str) == IF str = <<>> THEN Some("") ELSE Some(str[1].s)

\* str::parse::<Tz>()
parse_tz(str) ==
    IF \E n \in TzNames : str = Ascii(n)
    THEN Some(CHOOSE n \in TzNames : str = Ascii(n))
    ELSE None

get_time(timezone, time) ==
    LET tz == IF parse_tz(Ascii(timezone)) = None THEN "UTC"
              ELSE unwrap(parse_tz(Ascii(timezone)))
        h  == time.hour + TzOffset(tz)
    IN  IF h >= 24
        THEN [time EXCEPT !.hour = h - 24, !.day = time.day + 1]
        ELSE [time EXCEPT !.hour = h]

EpochYear == 1988

Pad2(n) == IF n < 10 THEN "0" \o ToString(n) ELSE ToString(n)

\* the specifiers TemplateContext::generate inserts
Specifiers ==
    { "Y", "C", "y", "m", "b", "B", "h", "d", "e", "a", "A", "w", "u", "U",
      "W", "G", "g", "V", "j", "D", "x", "F", "v", "H", "k", "I", "l", "P", "p",
      "M", "S", "f", "R", "T", "X", "r", "Z", "z", ":z", "c", "+", "s", "yeshu" }

\* TemplateContext::generate(datetime): specifier -> formatted value.  The
\* calendar fields the templates of this model use are formatted as chrono
\* formats them; the other specifiers are kept as opaque text.
TemplateContext_generate(datetime) ==
    [ key \in Specifiers |->
        CASE key = "Y" -> Ascii(ToString(datetime.year))
          [] key = "m" -> Ascii(Pad2(datetime.month))
          [] key = "d" -> Ascii(Pad2(datetime.day))
          [] key = "H" -> Ascii(Pad2(datetime.hour))
          [] key = "yeshu" -> Ascii(ToString(datetime.year - EpochYear))
          [] OTHER -> Ascii("%" \o key) ]

(***************************************************************************)
(* Group (src/src/group.rs).                                               *)
(***************************************************************************)
DefaultDelimiter == Ascii(" | ")

Group_new_open(chat_id, title) ==
    [ enable        |-> FALSE,
      id            |-> chat_id,
      title_segment |-> <<title>>,
      delimiter     |-> DefaultDelimiter,
      last_title    |-> title,
      timezone      |-> "UTC",
      require_admin |-> FALSE ]

Group_new_enabled(chat_id, title) ==
    [ enable        |-> TRUE,
      id            |-> chat_id,
      title_segment |-> <<title>>,
      delimiter     |-> DefaultDelimiter,
      last_title    |-> title,
      timezone      |-> "UTC",
      require_admin |-> TRUE ]

\* Group::new: the record of a chat seen for the first time
Group_new(chat_id, title) ==
    [ enable        |-> FALSE,
      id            |-> chat_id,
      title_segment |-> <<title>>,
      delimiter     |-> DefaultDelimiter,
      last_title    |-> title,
      timezone      |-> "UTC",
      require_admin |-> TRUE ]

push_title_template(g, new_segment) ==
    [g EXCEPT !.title_segment = Append(@, new_segment)]

push_front_title_template(g, new_segment) ==
    [g EXCEPT !.title_segment = <<new_segment>> \o @]

\* mutant: pop without the length test
pop_title_template_unguarded(g) ==
    [g EXCEPT !.title_segment = SubSeq(@, 1, Len(@) - 1)]

pop_title_template(g) ==
    IF Len(g.title_segment) > 1
    THEN [g EXCEPT !.title_segment = SubSeq(@, 1, Len(@) - 1)]
    ELSE g

pop_front_title_template(g) ==
    IF Len(g.title_segment) > 1
    THEN [g EXCEPT !.title_segment = Tail(@)]
    ELSE g

clear_title_template(g) == [g EXCEPT !.title_segment = <<>>]

RECURSIVE Join(_, _)
Join(segs, sep) ==
    IF segs = <<>> THEN <<>>
    ELSE IF Len(segs) = 1 THEN Head(segs)
    ELSE Head(segs) \o sep \o Join(Tail(segs), sep)

join_title_template_bare(g) == Join(g.title_segment, g.delimiter)

\* title_segment.join(&format!(" {} ", delimiter))
join_title_template(g) ==
    Join(g.title_segment, Ascii(" ") \o g.delimiter \o Ascii(" "))

\* Template::render: every placeholder is replaced by its value in the
\* context; a placeholder the context does not hold is an error.
RECURSIVE Substitute(_, _)
Substitute(str, context) ==
    IF str = <<>> THEN <<>>
    ELSE (IF Head(str).ph THEN context[Head(str).s] ELSE <<Head(str)>>)
         \o Substitute(Tail(str), context)

Resolvable(str, context) ==
    \A i \in 1..Len(str) : str[i].ph => str[i].s \in DOMAIN context

Ok(v) == [ok |-> TRUE, val |-> v]
Err == [ok |-> FALSE, val |-> <<>>]

get_new_title(g, context) ==
    LET template == join_title_template(g)
    IN  IF Resolvable(template, context)
        THEN Ok(Substitute(template, context))
        ELSE Err

MinTitleLen == 1
MaxTitleLen == 255

apply_template_title_any_length(g, date) ==
    get_new_title(g, TemplateContext_generate(get_time(g.timezone, date)))

\* apply_template up to its await: the title it is about to send, or the
\* error it returns before sending anything
apply_template_title(g, date) ==
    LET local_time == get_time(g.timezone, date)
        context    == TemplateContext_generate(local_time)
        new_title  == get_new_title(g, context)
    IN  IF ~new_title.ok THEN Err
        ELSE IF ~(ByteLen(new_title.val) \in MinTitleLen..MaxTitleLen) THEN Err
        ELSE new_title

\* Group::update_title, given the outcome of the HTTP request:
\*   "ok"    the API answered {ok: true}
\*   "notok" the API answered {ok: false}, or a body that does not parse
\*           (unwrap_or(SET_CHAT_TITLE_FAILED))
\*   "err"   the request itself failed
SetTitleReplies == {"ok", "notok", "err"}
update_title(reply) ==
    CASE reply = "ok"    -> [ok |-> TRUE, val |-> TRUE]
      [] reply = "notok" -> [ok |-> TRUE, val |-> FALSE]
      [] OTHER           -> [ok |-> FALSE, val |-> FALSE]

\* apply_template after its await: `self.update_title(..).await?` keeps only
\* the error; the boolean of an Ok is dropped, last_title is set and the
\* result is Ok(true).
apply_template_finish(g, new_title, reply) ==
    IF ~update_title(reply).ok
    THEN [group |-> g, result |-> FALSE]
    ELSE [group |-> [g EXCEPT !.last_title = new_title], result |-> TRUE]

(***************************************************************************)
(* DataStore (src/src/group.rs): keys and values of the key/value store.   *)
(***************************************************************************)
\* format!("group-{}", raw_id)
group_key(chat_id) == <<"group-", chat_id>>
\* k.name[6..] of get_group_keys, then str::parse::<i64>() of handle_scheduled
key_chat_id(key) == key[2]

\* bincode::serialize: the fields in declaration order
serialize(g) ==
    << g.enable, g.id, g.title_segment, g.delimiter, g.last_title,
       g.timezone, g.require_admin >>

\* bincode::deserialize
deserialize(data) ==
    [ enable        |-> data[1],
      id            |-> data[2],
      title_segment |-> data[3],
      delimiter     |-> data[4],
      last_title    |-> data[5],
      timezone      |-> data[6],
      require_admin |-> data[7] ]

(***************************************************************************)
(* The world outside the program: the chats and who writes in them.        *)
(***************************************************************************)
\* the group chats, in the order their keys are listed
ChatSeq == <<-1, -2>>
Chats == {ChatSeq[i] : i \in 1..Len(ChatSeq)}
\* a chat of the bot with one user
PrivateChat == [id |-> 7, kind |-> "private", title |-> None]
Tasks == {1, 2}
Keys == {group_key(c) : c \in Chats}

Commands ==
    { "enable", "disable", "set_template", "set_delimiter", "set_timezone",
      "push", "push_front", "pop", "pop_front" }

VARIABLES
    kv,       \* the key/value store: key -> Option<bytes>
    title,    \* Telegram: the current title of every group chat
    h,        \* the handler tasks: position, locals, and what they did so far
    sched,    \* the scheduled task
    nreq,     \* commands received so far
    nticks,   \* scheduled events so far
    nfaults   \* requests to the store or to Telegram that failed so far

vars == <<kv, title, h, sched, nreq, nticks, nfaults>>

(***************************************************************************)
(* Messages.  The text of a command is its first word and, when a space    *)
(* follows it, the remainder.                                              *)
(***************************************************************************)
\* str::split_once(' ')
split_once(text) ==
    IF text.rest = None THEN None
    ELSE Some(<<text.command, unwrap(text.rest)>>)

get_group_title(chat) ==
    IF chat.kind \in {"group", "supergroup", "channel"} THEN chat.title ELSE None

Rests(command) ==
    CASE command = "set_template" ->
            {None, Some(Empty), Some(HourTpl), Some(BogusTpl), Some(Long300),
             Some(Wide100)}
      [] command \in {"push", "push_front"} -> {None, Some(Empty), Some(HourTpl)}
      [] command = "set_delimiter" -> {None, Some(Empty), Some(Dash)}
      [] command = "set_timezone" ->
            {None, Some(Empty), Some(Ascii("Asia/Tokyo")), Some(Ascii("Mars/Base"))}
      [] OTHER -> {None}

UsualRest(command) ==
    CASE command \in {"set_template", "push", "push_front"} -> Some(HourTpl)
      [] command = "set_delimiter" -> Some(Dash)
      [] command = "set_timezone" -> Some(Ascii("Asia/Tokyo"))
      [] OTHER -> None

\* a group chat, as Telegram describes it now
GroupChat(c) == [id |-> c, kind |-> "supergroup", title |-> Some(title[c])]

\* The messages that carry a command.  In the first chat: from a user with
\* every remainder, and without a sender; in the other chats: from a user
\* with the usual remainder; and in a private chat.
Messages(command) ==
    { [chat |-> GroupChat(ChatSeq[1]), from |-> Some("user"),
       text |-> [command |-> command, rest |-> r]] : r \in Rests(command) }
    \cup { [chat |-> GroupChat(c), from |-> Some("user"),
            text |-> [command |-> command, rest |-> UsualRest(command)]] :
        c \in Chats }
    \cup { [chat |-> GroupChat(ChatSeq[1]), from |-> None,
            text |-> [command |-> command, rest |-> UsualRest(command)]],
           [chat |-> PrivateChat,
            from |-> Some("user"),
            text |-> [command |-> command, rest |-> None]] }

NoMessage ==
    [ chat |-> PrivateChat,
      from |-> None, text |-> [command |-> "", rest |-> None] ]

\* a handler task that has just received m
Fresh(m) ==
    [ pc        |-> "idle",
      m         |-> m,
      before    |-> IF m.chat.id \in Chats    \* the chat's value in the store
                    THEN kv[group_key(m.chat.id)] ELSE None,
      group     |-> None,     \* the task's in-memory Group
      loaded    |-> None,     \* the Group as load_group_or_create returned it
      load      |-> "none",   \* load_group: "found", "missing" or "error"
      status    |-> "none",   \* what getChatMember answered
      rendered  |-> None,     \* the title get_new_title rendered
      render    |-> "none",   \* apply_template before sending: "ok" or "bad"
      new_title |-> None,     \* the title being sent
      reply     |-> "none",   \* what setChatTitle answered
      applied   |-> "none",   \* apply_template(..).unwrap_or(false): "ok", "fail"
      puts      |-> <<>>,     \* the puts of this request
      calls     |-> <<>>,     \* the setChatTitle calls of this request
      result    |-> "none" ]  \* how the handler ended

\* the scheduled task before an event
Idle ==
    [ pc |-> "idle", pages |-> <<>>, asked |-> <<>>, keys |-> <<>>, idx |-> 0,
      date |-> None, group |-> None, new_title |-> None, out |-> <<>> ]

(***************************************************************************)
(* The store and the API, as the tasks use them.  Every request to the     *)
(* store or to Telegram can fail; a behaviour holds at most MaxFaults such *)
(* failures.                                                               *)
(***************************************************************************)
GetReplies == {"ok", "err"}
PutReplies == {"ok", "err"}
ListReplies == {"ok", "err"}
MemberReplies == {"creator", "administrator", "member", "error"}

Fault(failed) == IF failed THEN 1 ELSE 0

\* DataStore::load_group; get is the outcome of kv.get
load_group(store, id, get) ==
    IF get = "err" THEN Err
    ELSE IF store[group_key(id)] = None THEN Err
    ELSE Ok(deserialize(unwrap(store[group_key(id)])))

save_group_everywhere(store, g, put) ==
    IF put = "ok"
    THEN [k \in DOMAIN store |-> Some(serialize(g))]
    ELSE store

save_group_merging(store, g, put) ==
    LET held == store[group_key(g.id)]
        kept == IF held # None
                   /\ Len(deserialize(unwrap(held)).title_segment)
                        > Len(g.title_segment)
                THEN [g EXCEPT !.title_segment =
                                  deserialize(unwrap(held)).title_segment]
                ELSE g
    IN  IF put = "ok"
        THEN [store EXCEPT ![group_key(g.id)] = Some(serialize(kept))]
        ELSE store

\* DataStore::save_group; put is the outcome of kv.put_bytes
save_group(store, g, put) ==
    IF put = "ok"
    THEN [store EXCEPT ![group_key(g.id)] = Some(serialize(g))]
    ELSE store

PutRecord(g, put, by) ==
    [key |-> group_key(g.id), data |-> serialize(g), ok |-> put = "ok", by |-> by]

is_admin_or_member(status) ==
    IF status = "error" THEN Err
    ELSE Ok(status \in {"creator", "administrator", "member"})

\* Bot::is_admin; status is the outcome of getChatMember
is_admin(status) ==
    IF status = "error" THEN Err
    ELSE Ok(status \in {"creator", "administrator"})

check_permission_without_user(g, m, status) ==
    IF g.require_admin
    THEN IF m.from = None THEN Ok(TRUE) ELSE is_admin(status)
    ELSE Ok(TRUE)

check_permission(g, m, status) ==
    IF g.require_admin
    THEN IF m.from = None THEN Err ELSE is_admin(status)
    ELSE Ok(TRUE)

\* whether check_permission sends getChatMember
AsksTelegram(g, m) == g.require_admin /\ m.from # None

(***************************************************************************)
(* The handlers after load_group_or_create has returned a Group.           *)
(***************************************************************************)
\* what each handler does to its Group between check_permission and the
\* apply cycle
handler_mutation(command, g, m) ==
    LET arg == unwrap(split_once(m.text))[2]
    IN  CASE command = "enable"        -> [g EXCEPT !.enable = TRUE]
          [] command = "disable"       -> [g EXCEPT !.enable = FALSE]
          [] command = "set_template"  ->
                push_title_template(clear_title_template(g), arg)
          [] command = "set_delimiter" -> [g EXCEPT !.delimiter = arg]
          [] command = "set_timezone"  ->
                [g EXCEPT !.timezone = unwrap(parse_tz(arg))]
          [] command = "push"          -> push_title_template(g, arg)
          [] command = "push_front"    -> push_front_title_template(g, arg)
          [] command = "pop"           -> pop_title_template(g)
          [] command = "pop_front"     -> pop_front_title_template(g)

update_template_also_disabled(rec, g, date) ==
    LET rendered == get_new_title(g,
                        TemplateContext_generate(get_time(g.timezone, date)))
        new_title == apply_template_title(g, date)
    IN  IF new_title.ok
        THEN [rec EXCEPT !.group = Some(g),
                         !.rendered = Some(rendered.val),
                         !.render = "ok",
                         !.new_title = Some(new_title.val),
                         !.pc = "set_title"]
        ELSE [rec EXCEPT !.group = Some([g EXCEPT !.enable = FALSE]),
                         !.render = "bad",
                         !.applied = "fail",
                         !.pc = "save"]

\* update_template (and the same lines of enable and set_timezone), up to the
\* await of apply_template: `group.enable && !group.apply_template(..)`.
\* rec is the task, g its Group, date is Date::now().
update_template(rec, g, date) ==
    IF ~g.enable
    THEN [rec EXCEPT !.group = Some(g), !.pc = "save"]
    ELSE LET rendered == get_new_title(g,
                            TemplateContext_generate(get_time(g.timezone, date)))
             new_title == apply_template_title(g, date)
         IN  IF new_title.ok
             THEN [rec EXCEPT !.group = Some(g),
                              !.rendered = Some(rendered.val),
                              !.render = "ok",
                              !.new_title = Some(new_title.val),
                              !.pc = "set_title"]
             ELSE [rec EXCEPT !.group = Some([g EXCEPT !.enable = FALSE]),
                              !.rendered = IF rendered.ok THEN Some(rendered.val)
                                           ELSE None,
                              !.render = "bad",
                              !.applied = "fail",
                              !.pc = "save"]

\* check_permission and, when it grants, the handler's own lines up to its
\* next await on the store or on setChatTitle.  rec is the task, holding its
\* Group; status is the outcome of getChatMember, date is Date::now().
handler_body(rec, status, date) ==
    LET g       == unwrap(rec.group)
        command == rec.m.text.command
        perm    == check_permission(g, rec.m, status)
        asked   == [rec EXCEPT !.status =
                       IF AsksTelegram(g, rec.m) THEN status ELSE "none"]
    IN  IF ~perm.ok
        THEN [asked EXCEPT !.pc = "done", !.result = "error"]
        ELSE IF ~perm.val
        THEN [asked EXCEPT !.pc = "done", !.result = "empty"]
        ELSE LET g2 == handler_mutation(command, g, rec.m)
             IN  IF command = "disable"
                 THEN [asked EXCEPT !.group = Some(g2), !.pc = "save"]
                 ELSE IF command = "set_delimiter"
                 THEN [asked EXCEPT !.group = Some(g2), !.pc = "save_delimiter"]
                 ELSE update_template(asked, g2, date)

(***************************************************************************)
(* The handlers, from the command to their first await on the store        *)
(* (kv.get in load_group_or_create) and on to the next one.                *)
(***************************************************************************)
\* a command goes to the first task that is free
Receives(t, m, command) ==
    /\ h[t].pc = "idle"
    /\ \A u \in Tasks : u < t => h[u].pc # "idle"
    /\ nreq < MaxRequests
    /\ m.text.command = command
    /\ nreq' = nreq + 1

\* a handler that answers without touching the store
return_message(t, m, result) ==
    /\ h' = [h EXCEPT ![t] = [Fresh(m) EXCEPT !.pc = "done", !.result = result]]
    /\ UNCHANGED <<kv, title, sched, nticks, nfaults>>

warn_group_only(t, m) == return_message(t, m, "group_only")

\* load_group_or_create: the load; an Err of any kind leads to Group::new
load_group_or_create(t, m) ==
    /\ \E get \in GetReplies, status \in MemberReplies, date \in Instants :
         LET stored == load_group(kv, m.chat.id, get)
             how    == IF stored.ok THEN "found"
                       ELSE IF get = "err" THEN "error" ELSE "missing"
             faults == Fault(get = "err")
                       + Fault(stored.ok /\ AsksTelegram(stored.val, m)
                               /\ status = "error")
         IN  /\ nfaults + faults <= MaxFaults
             /\ nfaults' = nfaults + faults
             /\ h' = [h EXCEPT ![t] =
                        IF stored.ok
                        THEN handler_body([Fresh(m) EXCEPT !.load = how,
                                              !.group = Some(stored.val),
                                              !.loaded = Some(stored.val)],
                                          status, date)
                        ELSE LET new_group == Group_new(m.chat.id,
                                                unwrap(get_group_title(m.chat)))
                             IN  [Fresh(m) EXCEPT !.pc = "create",
                                                  !.load = how,
                                                  !.group = Some(new_group),
                                                  !.loaded = Some(new_group)]]
    /\ UNCHANGED <<kv, title, sched, nticks>>

\* the handlers without an argument
plain_handler(t, m) ==
    IF get_group_title(m.chat) = None
    THEN warn_group_only(t, m)
    ELSE load_group_or_create(t, m)

\* the handlers with an argument
argument_handler(t, m) ==
    IF get_group_title(m.chat) = None
    THEN warn_group_only(t, m)
    ELSE IF split_once(m.text) = None
    THEN return_message(t, m, "invalid_command")
    ELSE load_group_or_create(t, m)

enable(t, m) == Receives(t, m, "enable") /\ plain_handler(t, m)

disable(t, m) == Receives(t, m, "disable") /\ plain_handler(t, m)

set_template(t, m) == Receives(t, m, "set_template") /\ argument_handler(t, m)

set_delimiter(t, m) == Receives(t, m, "set_delimiter") /\ argument_handler(t, m)

set_timezone(t, m) ==
    /\ Receives(t, m, "set_timezone")
    /\ IF get_group_title(m.chat) = None
       THEN warn_group_only(t, m)
       ELSE IF split_once(m.text) = None
       THEN return_message(t, m, "invalid_command")
       ELSE IF parse_tz(unwrap(split_once(m.text))[2]) = None
       THEN return_message(t, m, "invalid_timezone")
       ELSE load_group_or_create(t, m)

push(t, m) == Receives(t, m, "push") /\ argument_handler(t, m)

push_front(t, m) == Receives(t, m, "push_front") /\ argument_handler(t, m)

pop(t, m) == Receives(t, m, "pop") /\ plain_handler(t, m)

pop_front(t, m) == Receives(t, m, "pop_front") /\ plain_handler(t, m)

(***************************************************************************)
(* The handlers at their later awaits.                                     *)
(***************************************************************************)
\* load_group_or_create: save_group(&new_group).await.ok(), then the handler
create_group(t) ==
    /\ h[t].pc = "create"
    /\ \E put \in PutReplies, status \in MemberReplies, date \in Instants :
         LET g      == unwrap(h[t].group)
             faults == Fault(put = "err")
                       + Fault(AsksTelegram(g, h[t].m) /\ status = "error")
         IN  /\ nfaults + faults <= MaxFaults
             /\ nfaults' = nfaults + faults
             /\ kv' = save_group(kv, g, put)
             /\ h' = [h EXCEPT ![t] =
                        handler_body([h[t] EXCEPT !.puts =
                                         Append(@, PutRecord(g, put, "create"))],
                                     status, date)]
    /\ UNCHANGED <<title, sched, nreq, nticks>>

\* set_delimiter: `store.save_group(&group).await?` before update_template
set_delimiter_save(t) ==
    /\ h[t].pc = "save_delimiter"
    /\ \E put \in PutReplies, date \in Instants :
         LET g    == unwrap(h[t].group)
             done == [h[t] EXCEPT !.puts = Append(@, PutRecord(g, put, "save"))]
         IN  /\ nfaults + Fault(put = "err") <= MaxFaults
             /\ nfaults' = nfaults + Fault(put = "err")
             /\ kv' = save_group(kv, g, put)
             /\ h' = [h EXCEPT ![t] =
                        IF put = "err"
                        THEN [done EXCEPT !.pc = "done", !.result = "error"]
                        ELSE update_template(done, g, date)]
    /\ UNCHANGED <<title, sched, nreq, nticks>>

\* Telegram's setChatTitle
set_chat_title(titles, chat_id, new_title, reply) ==
    IF reply = "ok" THEN [titles EXCEPT ![chat_id] = new_title] ELSE titles

\* what the handler keeps of its Group after apply_template:
\* `!apply_template(..).await.unwrap_or(false)` sets enable = false
after_apply(g, fin) ==
    IF fin.result THEN fin.group ELSE [g EXCEPT !.enable = FALSE]

\* apply_template at its await on update_title, and the handler's lines after
\* it
handler_apply_template(t) ==
    /\ h[t].pc = "set_title"
    /\ \E reply \in SetTitleReplies :
         LET g         == unwrap(h[t].group)
             new_title == unwrap(h[t].new_title)
             fin       == apply_template_finish(g, new_title, reply)
         IN  /\ nfaults + Fault(reply = "err") <= MaxFaults
             /\ nfaults' = nfaults + Fault(reply = "err")
             /\ title' = set_chat_title(title, g.id, new_title, reply)
             /\ h' = [h EXCEPT ![t].reply = reply,
                               ![t].calls = Append(@, [chat |-> g.id,
                                                       title |-> new_title]),
                               ![t].applied = IF fin.result THEN "ok" ELSE "fail",
                               ![t].group = Some(after_apply(g, fin)),
                               ![t].pc = "save"]
    /\ UNCHANGED <<kv, sched, nreq, nticks>>

\* the handler's last `store.save_group(&group).await?` and its reply
handler_save_group(t) ==
    /\ h[t].pc = "save"
    /\ \E put \in PutReplies :
         LET g == unwrap(h[t].group)
         IN  /\ nfaults + Fault(put = "err") <= MaxFaults
             /\ nfaults' = nfaults + Fault(put = "err")
             /\ kv' = save_group(kv, g, put)
             /\ h' = [h EXCEPT ![t].puts = Append(@, PutRecord(g, put, "save")),
                               ![t].pc = "done",
                               ![t].result = IF put = "err" THEN "error"
                                             ELSE IF h[t].applied = "fail"
                                             THEN "failed"
                                             ELSE "changed"]
    /\ UNCHANGED <<title, sched, nreq, nticks>>

\* the handler has returned its Response (or its error): the task is over
handler_return(t) ==
    /\ h[t].pc = "done"
    /\ h' = [h EXCEPT ![t] = Fresh(NoMessage)]
    /\ UNCHANGED <<kv, title, sched, nreq, nticks, nfaults>>

(***************************************************************************)
(* handle_scheduled (src/src/lib.rs).                                      *)
(***************************************************************************)
\* kv.list().prefix("group-"): the names, without "group-", of the keys that
\* hold a value, in the order the store lists them
kv_list(store) ==
    LET present(c) == store[group_key(c)] # None
    IN  SelectSeq(ChatSeq, present)

\* One page of a listing: list_result.keys, .list_complete and .cursor.  The
\* cursor of a page is the number of the page the store serves for it.
Page(keys, complete, cursor) ==
    [keys |-> keys, complete |-> complete, cursor |-> cursor]

\* The ways the store may serve a listing in n pages: the listing is cut into
\* n consecutive pieces, some of them empty; the last page is complete and
\* has no cursor; a page before it may say complete or not and may or may
\* not carry the cursor of the next page.
PagingsOf(listing, n) ==
    LET Cuts == { c \in [0..n -> 0..Len(listing)] :
                    /\ c[0] = 0 /\ c[n] = Len(listing)
                    /\ \A i \in 1..n : c[i - 1] <= c[i] }
        Flags == [1..n -> BOOLEAN \X BOOLEAN]
    IN  { [i \in 1..n |->
             Page(SubSeq(listing, c[i - 1] + 1, c[i]),
                  IF i = n THEN TRUE ELSE f[i][1],
                  IF i < n /\ f[i][2] THEN Some(i + 1) ELSE None)] :
          c \in Cuts,
          f \in { g \in Flags : g[n] = <<TRUE, FALSE>> } }

Pagings(listing) == UNION { PagingsOf(listing, n) : n \in 1..MaxPages }

\* the store serves a listing short enough in one page
OnePage(listing) == PagingsOf(listing, 1)

\* DataStore::get_group_keys from the page numbered i on, ret being the keys
\* collected so far: `while (!complete) && cursor.is_some()`
RECURSIVE list_from(_, _, _)
list_from(pages, i, ret) ==
    LET list_result == pages[i]
        collected   == ret \o list_result.keys
    IN  IF (~list_result.complete) /\ list_result.cursor # None
        THEN list_from(pages, unwrap(list_result.cursor), collected)
        ELSE collected

get_group_keys(pages) == list_from(pages, 1, <<>>)

\* what the loop did with one listed key
Outcome(chat, load, g, render, new_title, reply, result) ==
    [ chat |-> chat, load |-> load, group |-> g, render |-> render,
      new_title |-> new_title, reply |-> reply, result |-> result ]

next_group_unless_failed(s, outcome) ==
    [s EXCEPT !.out = Append(@, outcome),
              !.idx = @ + 1,
              !.group = None,
              !.new_title = None,
              !.pc = IF outcome.result = "fail" THEN "panicked"
                     ELSE IF s.idx + 1 > Len(s.keys) THEN "done" ELSE "load"]

\* the loop moves to the next key, or ends
next_group(s, outcome) ==
    [s EXCEPT !.out = Append(@, outcome),
              !.idx = @ + 1,
              !.group = None,
              !.new_title = None,
              !.pc = IF s.idx + 1 > Len(s.keys) THEN "done" ELSE "load"]

\* the task panics (`expect`): the event ends here
panic(s, outcome) ==
    [s EXCEPT !.out = Append(@, outcome), !.group = None, !.new_title = None,
              !.pc = "panicked"]

\* handle_scheduled up to the loop: get_group_keys and Date::now().  pagings
\* are the ways the store may page the listing; list is "err" when one of
\* the requests for a page fails.
handle_scheduled(pagings) ==
    /\ sched.pc = "idle"
    /\ nticks < MaxTicks
    /\ nticks' = nticks + 1
    /\ \E list \in ListReplies, date \in Instants, pages \in pagings :
         /\ nfaults + Fault(list = "err") <= MaxFaults
         /\ nfaults' = nfaults + Fault(list = "err")
         /\ sched' = IF list = "err"
                     THEN [Idle EXCEPT !.pc = "panicked"]
                     ELSE LET keys == get_group_keys(pages)
                          IN  [Idle EXCEPT !.pages = pages,
                                           !.keys = keys,
                                           !.idx = 1,
                                           !.date = Some(date),
                                           !.pc = IF keys = <<>> THEN "done"
                                                  ELSE "load"]
    /\ UNCHANGED <<kv, title, h, nreq>>

\* one turn of the loop up to its await on update_title: load_group, the
\* `enable` test, and apply_template up to sending the title
scheduled_load_group ==
    /\ sched.pc = "load"
    /\ \E get \in GetReplies :
         LET chat_id == sched.keys[sched.idx]
             stored  == load_group(kv, chat_id, get)
             g       == stored.val
             date    == unwrap(sched.date)
             new_title == apply_template_title(g, date)
         IN  /\ nfaults + Fault(get = "err") <= MaxFaults
             /\ nfaults' = nfaults + Fault(get = "err")
             /\ sched' =
                  IF ~stored.ok
                  THEN panic(sched, Outcome(chat_id, "error", None, "none", None,
                                            "none", "panic"))
                  ELSE IF ~g.enable
                  THEN next_group(sched, Outcome(chat_id, "found", Some(g), "none",
                                                 None, "none", "skipped"))
                  ELSE IF ~new_title.ok
                  THEN next_group(sched, Outcome(chat_id, "found", Some(g), "bad",
                                                 None, "none", "fail"))
                  ELSE [sched EXCEPT !.group = Some(g),
                                     !.new_title = Some(new_title.val),
                                     !.pc = "set_title"]
    /\ UNCHANGED <<kv, title, h, nreq, nticks>>

scheduled_store_saving(store, g, fin) == save_group(store, fin.group, "ok")

scheduled_store_disabling(store, g, fin) ==
    IF fin.result THEN store
    ELSE save_group(store, [g EXCEPT !.enable = FALSE], "ok")

\* what a turn of the loop leaves in the store: `let _res = ..` drops the
\* result of apply_template, and the Group, with its new last_title, is
\* dropped at the end of the turn; the loop has no save_group
scheduled_store(store, g, fin) == store

\* apply_template at its await on update_title, and the end of the turn
scheduled_apply_template ==
    /\ sched.pc = "set_title"
    /\ \E reply \in SetTitleReplies :
         LET g         == unwrap(sched.group)
             new_title == unwrap(sched.new_title)
             fin       == apply_template_finish(g, new_title, reply)
         IN  /\ nfaults + Fault(reply = "err") <= MaxFaults
             /\ nfaults' = nfaults + Fault(reply = "err")
             /\ title' = set_chat_title(title, g.id, new_title, reply)
             /\ kv' = scheduled_store(kv, g, fin)
             /\ sched' = next_group(sched,
                            Outcome(g.id, "found", Some(fin.group), "ok",
                                    Some(new_title), reply,
                                    IF fin.result THEN "ok" ELSE "fail"))
    /\ UNCHANGED <<h, nreq, nticks>>

\* handle_scheduled has returned or panicked: the event is over
scheduled_return ==
    /\ sched.pc \in {"done", "panicked"}
    /\ sched' = Idle
    /\ UNCHANGED <<kv, title, h, nreq, nticks, nfaults>>

(***************************************************************************)
(* get_group_keys, one kv.list at a time: the task is suspended at the     *)
(* await of every list request.                                            *)
(***************************************************************************)
list_execute_until_no_cursor(s, i, list, date) ==
    LET list_result == s.pages[i]
        ret         == s.keys \o list_result.keys
        called      == [s EXCEPT !.asked = Append(@, i)]
    IN  IF list = "err" THEN [called EXCEPT !.pc = "panicked"]
        ELSE IF list_result.cursor # None
        THEN [called EXCEPT !.keys = ret,
                            !.idx = unwrap(list_result.cursor),
                            !.pc = "list"]
        ELSE [called EXCEPT !.keys = ret,
                            !.idx = 1,
                            !.date = Some(date),
                            !.pc = IF ret = <<>> THEN "done" ELSE "load"]

\* One `kv.list()..execute().await?` of get_group_keys and the lines after
\* it.  s is the scheduled task, i the page its cursor names (1 for the
\* request without a cursor), list the outcome of the request.  An Err is
\* returned to handle_scheduled, which panics on it (`expect`); a page is
\* appended to ret, and the loop goes on `while (!complete) &&
\* cursor.is_some()`; when it ends, handle_scheduled takes Date::now() and
\* enters its loop over the keys.
list_execute(s, i, list, date) ==
    LET list_result == s.pages[i]
        ret         == s.keys \o list_result.keys
        called      == [s EXCEPT !.asked = Append(@, i)]
    IN  IF list = "err" THEN [called EXCEPT !.pc = "panicked"]
        ELSE IF (~list_result.complete) /\ list_result.cursor # None
        THEN [called EXCEPT !.keys = ret,
                            !.idx = unwrap(list_result.cursor),
                            !.pc = "list"]
        ELSE [called EXCEPT !.keys = ret,
                            !.idx = 1,
                            !.date = Some(date),
                            !.pc = IF ret = <<>> THEN "done" ELSE "load"]

\* handle_scheduled up to the answer to the first list request of
\* get_group_keys; pagings are the ways the store may page the listing
handle_scheduled_list(pagings) ==
    /\ sched.pc = "idle"
    /\ nticks < MaxTicks
    /\ nticks' = nticks + 1
    /\ \E list \in ListReplies, date \in Instants, pages \in pagings :
         /\ nfaults + Fault(list = "err") <= MaxFaults
         /\ nfaults' = nfaults + Fault(list = "err")
         /\ sched' = list_execute([Idle EXCEPT !.pages = pages], 1, list, date)
    /\ UNCHANGED <<kv, title, h, nreq>>

\* a turn of the loop of get_group_keys: the list request with the cursor
get_group_keys_next ==
    /\ sched.pc = "list"
    /\ \E list \in ListReplies, date \in Instants :
         /\ nfaults + Fault(list = "err") <= MaxFaults
         /\ nfaults' = nfaults + Fault(list = "err")
         /\ sched' = list_execute(sched, sched.idx, list, date)
    /\ UNCHANGED <<kv, title, h, nreq, nticks>>

(***************************************************************************)
(* The specification.                                                      *)
(***************************************************************************)
Init ==
    /\ kv = [k \in Keys |-> None]
    /\ title = [c \in Chats |-> TeamChat]
    /\ h = [t \in Tasks |-> Fresh(NoMessage)]
    /\ sched = Idle
    /\ nreq = 0
    /\ nticks = 0
    /\ nfaults = 0

\* nothing is in flight: no handler and no scheduled event
Quiet ==
    /\ \A t \in Tasks : h[t].pc = "idle"
    /\ sched.pc = "idle"

\* the steps of a handler after its command was received
HandlerSteps ==
    \/ \E t \in Tasks : create_group(t)
    \/ \E t \in Tasks : set_delimiter_save(t)
    \/ \E t \in Tasks : handler_apply_template(t)
    \/ \E t \in Tasks : handler_save_group(t)
    \/ \E t \in Tasks : handler_return(t)

\* Spec: the commands arrive one at a time, each after the one before it has
\* been answered; every command, every argument and every outcome of the
\* store and of Telegram is taken.
Next ==
    \/ \E t \in Tasks, m \in Messages("enable") : Quiet /\ enable(t, m)
    \/ \E t \in Tasks, m \in Messages("disable") : Quiet /\ disable(t, m)
    \/ \E t \in Tasks, m \in Messages("set_template") : Quiet /\ set_template(t, m)
    \/ \E t \in Tasks, m \in Messages("set_delimiter") : Quiet /\ set_delimiter(t, m)
    \/ \E t \in Tasks, m \in Messages("set_timezone") : Quiet /\ set_timezone(t, m)
    \/ \E t \in Tasks, m \in Messages("push") : Quiet /\ push(t, m)
    \/ \E t \in Tasks, m \in Messages("push_front") : Quiet /\ push_front(t, m)
    \/ \E t \in Tasks, m \in Messages("pop") : Quiet /\ pop(t, m)
    \/ \E t \in Tasks, m \in Messages("pop_front") : Quiet /\ pop_front(t, m)
    \/ HandlerSteps

Spec == Init /\ [][Next]_vars

\* SchedSpec: the scheduled events, between commands that configure the
\* group of the first chat; commands and events arrive one at a time.
SchedMessages(command) ==
    { [chat |-> GroupChat(c), from |-> Some("user"),
       text |-> [command |-> command, rest |-> r]] :
        c \in {ChatSeq[1]},
        r \in IF command = "set_delimiter" THEN {Some(BogusTpl)}
              ELSE {UsualRest(command)} }

SchedNext ==
    \/ \E t \in Tasks, m \in SchedMessages("enable") : Quiet /\ enable(t, m)
    \/ \E t \in Tasks, m \in SchedMessages("disable") : Quiet /\ disable(t, m)
    \/ \E t \in Tasks, m \in SchedMessages("set_delimiter") : Quiet /\ set_delimiter(t, m)
    \/ \E t \in Tasks, m \in SchedMessages("set_timezone") : Quiet /\ set_timezone(t, m)
    \/ HandlerSteps
    \/ Quiet /\ handle_scheduled(OnePage(kv_list(kv)))
    \/ scheduled_load_group
    \/ scheduled_apply_template
    \/ scheduled_return

\* The store outlives the worker: an event finds in it what earlier requests
\* left.  For a chat that is one of
\*   no record;
\*   the record after /set_template {H} and /enable at 10 o'clock;
\*   the record after /push {H}, /enable and a /set_delimiter {bogus} whose
\*   first save succeeded and whose last save failed: enabled, with a
\*   template that does not render.
Hourly(c) ==
    [Group_new(c, TeamChat) EXCEPT !.enable = TRUE,
                                   !.title_segment = <<HourTpl>>,
                                   !.last_title = Ascii("10")]
Broken(c) ==
    [Group_new(c, TeamChat) EXCEPT !.enable = TRUE,
                                   !.title_segment = <<TeamChat, HourTpl>>,
                                   !.delimiter = BogusTpl,
                                   !.last_title = Ascii("Team Chat | 10")]
LeftInStore(c) ==
    IF c = ChatSeq[1]
    THEN {None, Some(serialize(Hourly(c))), Some(serialize(Broken(c)))}
    ELSE {None, Some(serialize(Hourly(c)))}

SchedInit ==
    /\ kv \in {store \in [Keys -> UNION {LeftInStore(c) : c \in Chats}] :
                 \A c \in Chats : store[group_key(c)] \in LeftInStore(c)}
    /\ title = [c \in Chats |->
                  IF kv[group_key(c)] = None THEN TeamChat
                  ELSE deserialize(unwrap(kv[group_key(c)])).last_title]
    /\ h = [t \in Tasks |-> Fresh(NoMessage)]
    /\ sched = Idle
    /\ nreq = 0
    /\ nticks = 0
    /\ nfaults = 0

SchedSpec == SchedInit /\ [][SchedNext]_vars

\* FullSpec: every command, with its usual argument, on the first chat, and
\* the scheduled events; commands and events arrive one at a time.
FullMessages(command) ==
    { [chat |-> GroupChat(ChatSeq[1]), from |-> Some("user"),
       text |-> [command |-> command, rest |-> UsualRest(command)]] }

FullNext ==
    \/ \E t \in Tasks, m \in FullMessages("enable") : Quiet /\ enable(t, m)
    \/ \E t \in Tasks, m \in FullMessages("disable") : Quiet /\ disable(t, m)
    \/ \E t \in Tasks, m \in FullMessages("set_template") : Quiet /\ set_template(t, m)
    \/ \E t \in Tasks, m \in FullMessages("set_delimiter") : Quiet /\ set_delimiter(t, m)
    \/ \E t \in Tasks, m \in FullMessages("set_timezone") : Quiet /\ set_timezone(t, m)
    \/ \E t \in Tasks, m \in FullMessages("push") : Quiet /\ push(t, m)
    \/ \E t \in Tasks, m \in FullMessages("push_front") : Quiet /\ push_front(t, m)
    \/ \E t \in Tasks, m \in FullMessages("pop") : Quiet /\ pop(t, m)
    \/ \E t \in Tasks, m \in FullMessages("pop_front") : Quiet /\ pop_front(t, m)
    \/ HandlerSteps
    \/ Quiet /\ handle_scheduled(OnePage(kv_list(kv)))
    \/ scheduled_load_group
    \/ scheduled_apply_template
    \/ scheduled_return

FullSpec == Init /\ [][FullNext]_vars

\* RenderSpec: scheduled events alone, over the records that /push, /push_front,
\* /set_delimiter, /set_timezone and /enable leave in the store: enabled, with
\* one to three segments, one of three delimiters and one of the timezones.
Rendered(c) ==
    { [Group_new(c, TeamChat) EXCEPT !.enable = TRUE,
                                     !.title_segment = segs,
                                     !.delimiter = d,
                                     !.timezone = tz] :
        segs \in {<<TeamChat>>, <<TeamChat, DateTpl>>,
                  <<HourTpl, TeamChat, DateTpl>>},
        d \in {Bar, Dash, DefaultDelimiter},
        tz \in TzNames }

RenderInit ==
    /\ kv \in { [k \in Keys |-> IF k = group_key(ChatSeq[1])
                                 THEN Some(serialize(g)) ELSE o] :
                 g \in Rendered(ChatSeq[1]),
                 o \in {None, Some(serialize(Hourly(ChatSeq[2])))} }
    /\ title = [c \in Chats |-> TeamChat]
    /\ h = [t \in Tasks |-> Fresh(NoMessage)]
    /\ sched = Idle
    /\ nreq = 0
    /\ nticks = 0
    /\ nfaults = 0

RenderNext ==
    \/ handle_scheduled(OnePage(kv_list(kv)))
    \/ scheduled_load_group
    \/ scheduled_apply_template
    \/ scheduled_return

RenderSpec == RenderInit /\ [][RenderNext]_vars

\* ListSpec: scheduled events alone, over a store that pages its listing in
\* every way.
ListNext ==
    \/ handle_scheduled(Pagings(kv_list(kv)))
    \/ scheduled_load_group
    \/ scheduled_apply_template
    \/ scheduled_return

ListSpec == SchedInit /\ [][ListNext]_vars

\* PageSpec: scheduled events alone, get_group_keys taking the listing one
\* request at a time from a store that pages it in every way.  A task
\* suspended at an await is resumed when the request is answered.
PageNext ==
    \/ handle_scheduled_list(Pagings(kv_list(kv)))
    \/ get_group_keys_next
    \/ scheduled_load_group
    \/ scheduled_apply_template
    \/ scheduled_return

PageSpec ==
    /\ SchedInit
    /\ [][PageNext]_vars
    /\ WF_vars(get_group_keys_next)

\* ConcSpec: commands that change the segments of one chat, handled by tasks
\* that run concurrently and interleave at their awaits.
ConcMessages(command) ==
    { [chat |-> GroupChat(ChatSeq[1]), from |-> Some("user"),
       text |-> [command |-> command, rest |-> UsualRest(command)]] }

ConcNext ==
    \/ \E t \in Tasks, m \in ConcMessages("set_template") : set_template(t, m)
    \/ \E t \in Tasks, m \in ConcMessages("push") : push(t, m)
    \/ \E t \in Tasks, m \in ConcMessages("push_front") : push_front(t, m)
    \/ \E t \in Tasks, m \in ConcMessages("pop") : pop(t, m)
    \/ \E t \in Tasks, m \in ConcMessages("pop_front") : pop_front(t, m)
    \/ \E t \in Tasks : create_group(t)
    \/ \E t \in Tasks : handler_save_group(t)
    \/ \E t \in Tasks : handler_return(t)

ConcSpec == Init /\ [][ConcNext]_vars

\* RaceSpec: enable, disable and push on one chat, sent by the creator of the
\* group and handled by tasks that run concurrently with each other and with
\* the scheduled events, all interleaving at their awaits.  The store and
\* Telegram answer every request (setChatTitle may answer that it did not
\* succeed).
RaceMessages(command) ==
    { [chat |-> GroupChat(ChatSeq[1]), from |-> Some("user"),
       text |-> [command |-> command,
                 rest |-> IF command = "push" THEN Some(Dash) ELSE None]] }

Reliable == nfaults' = nfaults
FromCreator == \A t \in Tasks : h'[t].status \in {"none", "creator"}

RaceNext ==
    \/ \E t \in Tasks, m \in RaceMessages("enable") :
          enable(t, m) /\ Reliable /\ FromCreator
    \/ \E t \in Tasks, m \in RaceMessages("disable") :
          disable(t, m) /\ Reliable /\ FromCreator
    \/ \E t \in Tasks, m \in RaceMessages("push") :
          push(t, m) /\ Reliable /\ FromCreator
    \/ \E t \in Tasks : handler_apply_template(t) /\ Reliable
    \/ \E t \in Tasks : handler_save_group(t) /\ Reliable
    \/ \E t \in Tasks : handler_return(t)
    \/ handle_scheduled(OnePage(kv_list(kv))) /\ Reliable
    \/ scheduled_load_group /\ Reliable
    \/ scheduled_apply_template /\ Reliable
    \/ scheduled_return

\* the record /enable leaves for a chat that had none
Enabled(c) == [Group_new(c, TeamChat) EXCEPT !.enable = TRUE]

\* the store holds the enabled record of the first chat
RaceInit ==
    /\ kv = [k \in Keys |-> IF k = group_key(ChatSeq[1])
                             THEN Some(serialize(Enabled(ChatSeq[1])))
                             ELSE None]
    /\ title = [c \in Chats |-> TeamChat]
    /\ h = [t \in Tasks |-> Fresh(NoMessage)]
    /\ sched = Idle
    /\ nreq = 0
    /\ nticks = 0
    /\ nfaults = 0

RaceSpec == RaceInit /\ [][RaceNext]_vars

(***************************************************************************)
(* Properties.                                                             *)
(***************************************************************************)
Command(t) == h[t].m.text.command
\* check_permission granted: the handler went on to change its Group
Granted(t) == h[t].pc \in {"save_delimiter", "set_title", "save"}
              \/ (h[t].pc = "done" /\ h[t].result \in {"failed", "changed"})
              \/ (h[t].pc = "done" /\ h[t].result = "error"
                  /\ \E i \in 1..Len(h[t].puts) : h[t].puts[i].by = "save")
\* the records a task has sent to the store
Written(t) == {deserialize(h[t].puts[i].data) : i \in 1..Len(h[t].puts)}
\* the records the store holds
Stored == {deserialize(unwrap(kv[k])) : k \in {k2 \in Keys : kv[k2] # None}}

\* C1: every Group a task holds, every Group sent to the store and every
\* Group in the store has at least one segment, under any interleaving of
\* push, push_front, pop, pop_front and set_template on one chat; and pop and
\* pop_front on a Group with a single segment leave its segments as they were.
C1_SegmentInvariant ==
    /\ \A t \in Tasks :
          h[t].group # None => Len(unwrap(h[t].group).title_segment) >= 1
    /\ \A t \in Tasks : \A g \in Written(t) : Len(g.title_segment) >= 1
    /\ \A g \in Stored : Len(g.title_segment) >= 1
    /\ \A t \in Tasks :
          ( /\ Granted(t)
            /\ Command(t) \in {"pop", "pop_front"}
            /\ Len(unwrap(h[t].loaded).title_segment) = 1 )
          => unwrap(h[t].group).title_segment = unwrap(h[t].loaded).title_segment

\* a pop on a single-segment Group was granted, ran and was saved, while the
\* other task had pushed a segment to the same chat
C1_Witness ==
    \E t \in Tasks :
        /\ h[t].pc = "done"
        /\ h[t].result = "changed"
        /\ Command(t) = "pop"
        /\ unwrap(h[t].loaded).title_segment = <<TeamChat>>
        /\ unwrap(h[t].group).title_segment = <<TeamChat>>
        /\ \E u \in Tasks \ {t} :
              /\ Command(u) = "push"
              /\ h[u].pc = "save"
              /\ Len(unwrap(h[u].group).title_segment) = 2
ChatKey(t) == group_key(h[t].m.chat.id)
Denied(t) == h[t].status = "member"

\* C2 as stated: when getChatMember answers "member" for a request on a chat
\* whose record has require_admin = true, the store holds for that chat what
\* it held when the request arrived, whether or not that was a record, and
\* the request sends no setChatTitle.
C2_DenialChangesNothing ==
    \A t \in Tasks :
        Denied(t) => /\ kv[ChatKey(t)] = h[t].before
                     /\ h[t].calls = <<>>

\* C2, amended: a denied request sends no setChatTitle and ends with the empty
\* answer.  When load_group returned the stored record the request makes no
\* put and the store keeps for the chat what it held.  When load_group returned
\* no record (none stored, or the read failed) the request makes exactly one
\* put, the one of load_group_or_create, of the default record of the chat,
\* and the store holds for the chat that record if the put succeeded and what
\* it held if the put failed.
C2_DenialWritesOnlyDefault ==
    \A t \in Tasks :
        Denied(t) =>
            /\ unwrap(h[t].loaded).require_admin
            /\ h[t].calls = <<>>
            /\ h[t].pc = "done" /\ h[t].result = "empty"
            /\ h[t].group = h[t].loaded
            /\ IF h[t].load = "found"
               THEN /\ h[t].puts = <<>>
                    /\ kv[ChatKey(t)] = h[t].before
               ELSE /\ Len(h[t].puts) = 1
                    /\ h[t].puts[1].by = "create"
                    /\ h[t].puts[1].key = ChatKey(t)
                    /\ h[t].puts[1].data =
                          serialize(Group_new(h[t].m.chat.id,
                                              unwrap(h[t].m.chat.title)))
                    /\ kv[ChatKey(t)] = IF h[t].puts[1].ok
                                        THEN Some(h[t].puts[1].data)
                                        ELSE h[t].before

\* a denied set_template on a chat whose record is stored, next to which the
\* store still holds that record
C2_Witness ==
    \E t \in Tasks :
        /\ Denied(t)
        /\ Command(t) = "set_template"
        /\ h[t].load = "found"
        /\ h[t].before # None
        /\ kv[ChatKey(t)] = h[t].before
        /\ unwrap(h[t].loaded).enable

\* the handler answered after its last put succeeded
Completed(t) == h[t].pc = "done" /\ h[t].result \in {"failed", "changed"}
\* the apply cycle of the request did not change the title
ApplyFailed(t) == h[t].render = "bad" \/ h[t].reply \in {"notok", "err"}
StoredGroup(t) == deserialize(unwrap(kv[ChatKey(t)]))

\* C3 as stated: when a handler that ran the apply cycle has completed with
\* its put succeeding and the apply attempt failed (render error, length out
\* of range, transport error or a non-success answer of setChatTitle), the
\* stored record has enable = false.
C3_FailedApplyStoresDisabled ==
    \A t \in Tasks :
        Completed(t) /\ ApplyFailed(t) => ~StoredGroup(t).enable

\* C4 as stated: the apply cycle reports success and sets last_title to the
\* rendered string only when setChatTitle answered with success; on a
\* non-success answer or a transport failure it reports failure and leaves
\* last_title as it was.
C4_SuccessOnlyOnOk ==
    \A t \in Tasks :
        /\ h[t].applied = "ok" => h[t].reply = "ok"
        /\ h[t].reply \in {"notok", "err"} =>
              /\ h[t].applied = "fail"
              /\ unwrap(h[t].group).last_title = unwrap(h[t].loaded).last_title

\* C7 as stated: when a record is stored for the chat, load_group_or_create
\* returns that record and makes no put; the default record is made and
\* written only when no record is stored under the chat's key.
C7_NeverReplaces ==
    \A t \in Tasks :
        h[t].load # "none" /\ h[t].before # None =>
            /\ h[t].loaded = Some(deserialize(unwrap(h[t].before)))
            /\ \A i \in 1..Len(h[t].puts) : h[t].puts[i].by # "create"

\* the request rendered a title with a placeholder the context does not hold
Unresolved(t) == h[t].render # "none" /\ h[t].rendered = None
\* the request rendered a title that is empty or longer than MaxTitleLen
LengthOut(t) ==
    /\ h[t].rendered # None
    /\ CharLen(unwrap(h[t].rendered)) \notin MinTitleLen..MaxTitleLen

\* C8: every setChatTitle of the apply cycle carries the title that rendered,
\* with no placeholder left in it and a length from MinTitleLen to
\* MaxTitleLen; when rendering failed on a placeholder, or the rendered title
\* is empty or longer than MaxTitleLen, the apply cycle fails, no
\* setChatTitle is sent and last_title stays as it was.
C8_SetTitleOnlyValid ==
    \A t \in Tasks :
        /\ \A i \in 1..Len(h[t].calls) :
              LET sent == h[t].calls[i].title
              IN  /\ h[t].rendered = Some(sent)
                  /\ \A j \in 1..Len(sent) : ~sent[j].ph
                  /\ CharLen(sent) \in MinTitleLen..MaxTitleLen
                  /\ ByteLen(sent) \in MinTitleLen..MaxTitleLen
        /\ Unresolved(t) \/ LengthOut(t) =>
              /\ h[t].applied = "fail"
              /\ h[t].calls = <<>>
              /\ h[t].pc \in {"save", "done"}
              /\ unwrap(h[t].group).last_title = unwrap(h[t].loaded).last_title

\* a set_template with a title of 300 characters on an enabled group: the
\* apply cycle has failed and nothing was sent
C8_Witness ==
    \E t \in Tasks :
        /\ Command(t) = "set_template"
        /\ LengthOut(t)
        /\ unwrap(h[t].loaded).enable
        /\ CharLen(unwrap(h[t].rendered)) > MaxTitleLen
        /\ h[t].result = "failed"

\* what the event did with the i-th key it listed
Turn(i) == sched.out[i]
Turns == 1..Len(sched.out)
StoredFor(c) == deserialize(unwrap(kv[group_key(c)]))

\* C5: a turn of the loop whose apply cycle fails (the title does not render,
\* has an invalid length, or setChatTitle fails) does not end the event: the
\* loop takes the listed keys in order, stops early only where a load failed,
\* and once it has ended normally it has run the apply cycle for every listed
\* group that is enabled; a turn whose title rendered and whose setChatTitle
\* succeeded has succeeded and the chat carries its title.
C5_ApplyFailureIsolated ==
    /\ \A i \in Turns : Turn(i).chat = sched.keys[i]
    /\ sched.pc \in {"load", "set_title"} => Len(sched.out) = sched.idx - 1
    /\ sched.pc = "done" =>
          /\ Len(sched.out) = Len(sched.keys)
          /\ \A i \in Turns :
                unwrap(Turn(i).group).enable => Turn(i).result \in {"ok", "fail"}
    /\ sched.pc = "panicked" =>
          \A i \in Turns : Turn(i).result = "fail" => i < Len(sched.out)
    /\ \A i \in Turns :
          Turn(i).render = "ok" /\ Turn(i).reply = "ok" =>
              /\ Turn(i).result = "ok"
              /\ title[Turn(i).chat] = unwrap(Turn(i).new_title)

\* an event over two groups has ended: the title of the first did not
\* render, the second got its title
C5_Witness ==
    /\ sched.pc = "done"
    /\ Len(sched.keys) = 2
    /\ Turn(1).result = "fail" /\ Turn(1).render = "bad"
    /\ Turn(2).result = "ok" /\ Turn(2).reply = "ok"

\* C6 as stated: when the load of a listed key fails, the loop goes on to the
\* keys listed after it.
C6_LoadFailureIsolated ==
    \A i \in Turns :
        Turn(i).load = "error" /\ i < Len(sched.keys) => sched.pc # "panicked"

\* C9 as stated: after a turn of the loop whose apply cycle succeeded, the
\* stored record of the group has the title of that turn as its last_title.
C9_TickStoresLastTitle ==
    \A i \in Turns :
        Turn(i).result = "ok" /\ Turn(i).reply = "ok" =>
            StoredFor(Turn(i).chat).last_title = unwrap(Turn(i).new_title)

\* the fields of a record that only commands change
Settings(g) ==
    << g.enable, g.title_segment, g.delimiter, g.timezone, g.require_admin, g.id >>

\* C10: no step of a scheduled event changes enable, title_segment, delimiter,
\* timezone, require_admin or id of a stored record, or removes or adds a
\* record, whether the apply cycle of the turn succeeds or fails.
C10_TickKeepsSettings ==
    [][ sched' # sched =>
          \A k \in Keys :
              IF kv[k] = None THEN kv'[k] = None
              ELSE /\ kv'[k] # None
                   /\ Settings(deserialize(unwrap(kv'[k]))) =
                        Settings(deserialize(unwrap(kv[k]))) ]_vars

\* a turn of the loop whose setChatTitle failed, and another whose title did
\* not render, after which both groups are stored enabled
C10_Witness ==
    /\ sched.pc = "done"
    /\ \E i \in Turns : Turn(i).result = "fail" /\ Turn(i).reply \in {"notok", "err"}
                         /\ StoredFor(Turn(i).chat).enable
    /\ \E i \in Turns : Turn(i).result = "fail" /\ Turn(i).render = "bad"
                         /\ StoredFor(Turn(i).chat).enable

\* the keys of the pages 1..n of a paging, one page after the other
RECURSIVE KeysUpTo(_, _)
KeysUpTo(pages, n) ==
    IF n = 0 THEN <<>> ELSE KeysUpTo(pages, n - 1) \o pages[n].keys

\* the first page that reports the listing complete
FirstComplete(pages) ==
    CHOOSE j \in 1..Len(pages) :
        pages[j].complete /\ \A i \in 1..(j - 1) : ~pages[i].complete

\* C11 as stated: get_group_keys returns the keys of every page of the
\* listing up to and including the first page that reports complete = true,
\* in order, also when a page before it reports complete = false and carries
\* no cursor.
C11_ListsUpToComplete ==
    sched.pages # <<>> =>
        sched.keys = KeysUpTo(sched.pages, FirstComplete(sched.pages))

\* check_permission has been consulted for the request of t
Consulted(t) == h[t].load # "none" /\ h[t].pc # "create"
\* check_permission returned an error: no sender, or getChatMember failed
GateError(t) ==
    Consulted(t) /\ (h[t].m.from = None \/ h[t].status = "error")
DefaultOf(t) == Group_new(h[t].m.chat.id, unwrap(h[t].m.chat.title))

\* C12: a request without a sender, or one whose getChatMember fails, ends
\* with an error; it sends no setChatTitle and puts nothing but the default
\* record of load_group_or_create, so its mutation reaches neither the store
\* nor Telegram.  A request passes check_permission exactly when
\* getChatMember answered creator or administrator.
C12_GateErrorsPropagate ==
    \A t \in Tasks :
        /\ GateError(t) =>
              /\ unwrap(h[t].loaded).require_admin
              /\ h[t].pc = "done" /\ h[t].result = "error"
              /\ h[t].calls = <<>>
              /\ h[t].group = h[t].loaded
              /\ \A i \in 1..Len(h[t].puts) :
                    /\ h[t].puts[i].by = "create"
                    /\ h[t].puts[i].data = serialize(DefaultOf(t))
        /\ Consulted(t) =>
              (Granted(t) <=> h[t].status \in {"creator", "administrator"})

\* a push whose getChatMember failed, on a chat with a stored record: the
\* store holds what it held
C12_Witness ==
    \E t \in Tasks :
        /\ Command(t) = "push"
        /\ h[t].status = "error"
        /\ h[t].load = "found"
        /\ h[t].result = "error"
        /\ kv[ChatKey(t)] = h[t].before

\* the request of t loaded a record that is not enabled
LoadedDisabled(t) == h[t].loaded # None /\ ~unwrap(h[t].loaded).enable

\* C13: a request other than enable that loaded a record with enable = false
\* renders nothing and sends no setChatTitle, and when it has completed the
\* store holds the loaded record with the mutation of the command; a turn of
\* the scheduled loop over a record with enable = false is skipped and sends
\* no setChatTitle.
C13_DisabledNeverApplied ==
    /\ \A t \in Tasks :
          LoadedDisabled(t) /\ Command(t) # "enable" =>
              /\ h[t].calls = <<>>
              /\ h[t].render = "none" /\ h[t].reply = "none"
              /\ Completed(t) =>
                    /\ h[t].result = "changed"
                    /\ kv[ChatKey(t)] =
                          Some(serialize(handler_mutation(Command(t),
                                             unwrap(h[t].loaded), h[t].m)))
    /\ \A i \in Turns :
          Turn(i).group # None /\ ~unwrap(Turn(i).group).enable =>
              /\ Turn(i).result = "skipped"
              /\ Turn(i).reply = "none" /\ Turn(i).new_title = None

\* a push on a stored record that is not enabled has completed: the segment
\* is stored and nothing was sent
C13_Witness ==
    \E t \in Tasks :
        /\ Command(t) = "push"
        /\ h[t].load = "found"
        /\ LoadedDisabled(t)
        /\ Completed(t)
        /\ Len(StoredGroup(t).title_segment) = 2
        /\ h[t].calls = <<>>

\* the record the store held for the chat when the request arrived, or the
\* default record of the chat when it held none
RecordBefore(t) ==
    IF h[t].before # None THEN deserialize(unwrap(h[t].before)) ELSE DefaultOf(t)

\* C14 as stated: once an authorized disable has completed with its put
\* succeeding, the store holds the record of the chat with enable = false and
\* every other field as it was; the request rendered nothing and sent no
\* setChatTitle.
C14_DisableOnlyDisables ==
    \A t \in Tasks :
        Command(t) = "disable" /\ Completed(t) =>
            /\ kv[ChatKey(t)] =
                  Some(serialize([RecordBefore(t) EXCEPT !.enable = FALSE]))
            /\ h[t].render = "none"
            /\ h[t].calls = <<>>

\* the argument of the command is missing: there is no space, or nothing
\* after it
Rest(t) == h[t].m.text.rest
NoArgument(t) == Rest(t) = None \/ Rest(t) = Some(Empty)
InGroup(t) == h[t].m.chat.id \in Chats

\* C15: a set_timezone whose argument is missing or is not the name of a
\* timezone is answered with a message and touches nothing: it loads and
\* creates no record, puts nothing, sends no setChatTitle, and the store
\* holds for the chat what it held.  Every record a set_timezone saves has
\* the name of a timezone as its timezone, the one its argument parses to.
C15_BadTimezoneChangesNothing ==
    \A t \in Tasks :
        Command(t) = "set_timezone" =>
            /\ NoArgument(t) \/ parse_tz(unwrap(Rest(t))) = None =>
                  /\ h[t].pc = "done"
                  /\ h[t].result \in {"group_only", "invalid_command",
                                       "invalid_timezone"}
                  /\ h[t].load = "none" /\ h[t].group = None
                  /\ h[t].puts = <<>>
                  /\ h[t].calls = <<>>
                  /\ InGroup(t) => kv[ChatKey(t)] = h[t].before
            /\ \A i \in 1..Len(h[t].puts) :
                  h[t].puts[i].by = "save" =>
                      /\ deserialize(h[t].puts[i].data).timezone \in TzNames
                      /\ Some(deserialize(h[t].puts[i].data).timezone) =
                            parse_tz(unwrap(Rest(t)))

\* a set_timezone with the argument Mars/Base on a chat with a stored record
\* has been answered
C15_Witness ==
    \E t \in Tasks :
        /\ Command(t) = "set_timezone"
        /\ Rest(t) = Some(Ascii("Mars/Base"))
        /\ h[t].result = "invalid_timezone"
        /\ h[t].before # None
        /\ kv[ChatKey(t)] = h[t].before

\* C16 as stated: a set_delimiter, push or push_front with no space in its
\* text, or with nothing after the first space, leaves the delimiter and the
\* segments of the stored record as they were (the read of the record not
\* having failed).
C16_EmptyRemainderRejected ==
    \A t \in Tasks :
        /\ Command(t) \in {"set_delimiter", "push", "push_front"}
        /\ NoArgument(t)
        /\ h[t].before # None /\ h[t].load # "error"
        => /\ StoredGroup(t).delimiter = RecordBefore(t).delimiter
           /\ StoredGroup(t).title_segment = RecordBefore(t).title_segment

\* the step is a put of task t
PutBy(t) == Len(h'[t].puts) = Len(h[t].puts) + 1
LastPut(puts) == puts[Len(puts)]
\* C17: under every interleaving of two handlers on one chat, a put that
\* succeeds replaces the stored record by exactly the record it was given,
\* whatever the other handler wrote before, and nothing else changes the
\* store; so the store holds at every moment, and once both handlers have
\* ended, the record of the put that succeeded last, never a merge of two
\* records and never a record that no handler wrote.
C17_LastWriterWins ==
    [][ \/ \E t \in Tasks :
           /\ PutBy(t)
           /\ kv' = IF LastPut(h'[t].puts).ok
                    THEN [kv EXCEPT ![LastPut(h'[t].puts).key] =
                                       Some(LastPut(h'[t].puts).data)]
                    ELSE kv
      \/ /\ \A t \in Tasks : ~PutBy(t)
         /\ kv' = kv ]_vars

\* two pushes on the same stored record have both completed: the store holds
\* the record of one of them, and the segment of the other is lost
C17_Witness ==
    \E t, u \in Tasks :
        /\ t # u
        /\ Command(t) = "push" /\ Command(u) = "push"
        /\ Completed(t) /\ Completed(u)
        /\ h[t].load = "found" /\ h[u].loaded = h[t].loaded
        /\ kv[ChatKey(t)] = Some(LastPut(h[t].puts).data)
        /\ Len(StoredGroup(t).title_segment)
             = Len(unwrap(h[t].loaded).title_segment) + 1

\* load_group_or_create found no record for the chat of the request
FirstReference(t) == h[t].load = "missing"
ChatTitle(t) == unwrap(h[t].m.chat.title)

\* C18: the record load_group_or_create makes for a chat without a record has
\* the id of the chat, enable = false, the chat's title as its only segment
\* and as last_title, the timezone UTC and require_admin = true; it is what
\* the request puts first, and the handler goes on with it whether that put
\* succeeds or fails.
C18_DefaultRecord ==
    \A t \in Tasks :
        FirstReference(t) =>
            /\ h[t].before = None
            /\ LET g == unwrap(h[t].loaded)
               IN  /\ g.id = h[t].m.chat.id
                   /\ g.enable = FALSE
                   /\ g.title_segment = <<ChatTitle(t)>>
                   /\ g.last_title = ChatTitle(t)
                   /\ g.timezone = "UTC"
                   /\ g.require_admin = TRUE
            /\ h[t].pc = "create" => h[t].puts = <<>> /\ h[t].group = h[t].loaded
            /\ h[t].pc # "create" =>
                  /\ h[t].puts[1].by = "create"
                  /\ h[t].puts[1].key = ChatKey(t)
                  /\ deserialize(h[t].puts[1].data) = unwrap(h[t].loaded)
                  /\ Consulted(t)
                  /\ Completed(t) /\ Command(t) # "enable" =>
                        kv[ChatKey(t)] =
                            Some(serialize(handler_mutation(Command(t),
                                               unwrap(h[t].loaded), h[t].m)))

\* a push on a chat without a record has completed although the put of the
\* default record failed: the store holds the default record with the
\* pushed segment
C18_Witness ==
    \E t \in Tasks :
        /\ FirstReference(t)
        /\ Command(t) = "push"
        /\ Completed(t)
        /\ h[t].puts[1].ok = FALSE
        /\ StoredGroup(t).title_segment = <<ChatTitle(t), HourTpl>>

\* a string as text, a placeholder written {key}
RECURSIVE Flat(_)
Flat(str) ==
    IF str = <<>> THEN ""
    ELSE (IF Head(str).ph THEN "{" \o Head(str).s \o "}" ELSE Head(str).s)
         \o Flat(Tail(str))

\* the segments as text, with sep between one segment and the next
RECURSIVE FlatJoin(_, _)
FlatJoin(segs, sep) ==
    IF Len(segs) = 0 THEN ""
    ELSE IF Len(segs) = 1 THEN Flat(segs[1])
    ELSE Flat(segs[1]) \o sep \o FlatJoin(Tail(segs), sep)

\* C19: the template of a record is its segments, in order, with a space, the
\* delimiter and a space between one segment and the next, and without the
\* delimiter when there is one segment; a segment without placeholders is
\* rendered as itself.  The segment "Team Chat" alone is rendered
\* "Team Chat"; the segments "Team Chat" and "{Y}-{m}-{d}" with the
\* delimiter "|" are rendered "Team Chat | 2024-03-05" on 5 March 2024 in
\* UTC.
C19_JoinWithSpaces ==
    \A i \in Turns :
        Turn(i).render = "ok" =>
            LET g      == unwrap(Turn(i).group)
                segs   == g.title_segment
                joined == join_title_template(g)
                sent   == Flat(unwrap(Turn(i).new_title))
            IN  /\ Flat(joined) =
                      FlatJoin(segs, " " \o Flat(g.delimiter) \o " ")
                /\ Len(segs) = 1 => joined = segs[1]
                /\ segs = <<TeamChat>> => sent = "Team Chat"
                /\ ( /\ segs = <<TeamChat, DateTpl>>
                     /\ g.delimiter = Bar
                     /\ g.timezone = "UTC"
                     /\ unwrap(sched.date).year = 2024
                     /\ unwrap(sched.date).month = 3
                     /\ unwrap(sched.date).day = 5 )
                   => sent = "Team Chat | 2024-03-05"

\* a scheduled event at 10 o'clock on 5 March 2024 has sent the title of the
\* record with the segments "Team Chat" and "{Y}-{m}-{d}", the delimiter
\* "|" and the timezone UTC
C19_Witness ==
    \E i \in Turns :
        /\ Turn(i).result = "ok"
        /\ unwrap(Turn(i).group).title_segment = <<TeamChat, DateTpl>>
        /\ unwrap(Turn(i).group).delimiter = Bar
        /\ unwrap(Turn(i).group).timezone = "UTC"
        /\ unwrap(sched.date).hour = 10
        /\ Flat(title[Turn(i).chat]) = "Team Chat | 2024-03-05"

\* the template of the record renders: every placeholder of its joined
\* segments is a specifier of the context
Renders(g) ==
    \A date \in Instants :
        get_new_title(g, TemplateContext_generate(get_time(g.timezone, date))).ok

\* C20 as stated: every record that push, push_front, set_template or
\* set_delimiter saves has a template that renders, whether the record was
\* enabled or not when the request arrived.
C20_StoredTemplatesRender ==
    \A t \in Tasks :
        Command(t) \in {"push", "push_front", "set_template", "set_delimiter"} =>
            \A i \in 1..Len(h[t].puts) :
                h[t].puts[i].by = "save" /\ h[t].puts[i].ok =>
                    Renders(deserialize(h[t].puts[i].data))

\* the keys of the pages that were requested, in the order of the requests
RECURSIVE KeysAsked(_, _)
KeysAsked(pages, asked) ==
    IF asked = <<>> THEN <<>>
    ELSE pages[Head(asked)].keys \o KeysAsked(pages, Tail(asked))

\* get_group_keys has returned Ok to handle_scheduled
Listed == sched.date # None

\* C21: over a store that serves the listing in finitely many pages,
\* get_group_keys issues its list requests one page after the other, the
\* first without a cursor and every other with the cursor of the page before
\* it; it requests no page twice and none after a page that reported
\* complete = true or carried no cursor; once it has returned, it has
\* returned the keys of the pages it requested, a finite sequence; and a
\* listing that has started ends, returning or failing on a request.
C21_ListingTerminates ==
    /\ [](LET asked == sched.asked
              pages == sched.pages
          IN  /\ Len(asked) <= Len(pages)
              /\ Len(pages) <= MaxPages
              /\ \A j \in 1..Len(asked) :
                    /\ asked[j] \in 1..Len(pages)
                    /\ j = 1 => asked[j] = 1
                    /\ j > 1 =>
                          /\ ~pages[asked[j - 1]].complete
                          /\ pages[asked[j - 1]].cursor = Some(asked[j])
                    /\ \A k \in 1..Len(asked) : k # j => asked[k] # asked[j]
              /\ sched.pc = "list" =>
                    /\ asked # <<>>
                    /\ sched.idx = unwrap(pages[asked[Len(asked)]].cursor)
                    /\ sched.keys = KeysAsked(pages, asked)
              /\ Listed =>
                    /\ asked # <<>>
                    /\ sched.keys = KeysAsked(pages, asked)
                    /\ Len(sched.keys) <= Len(ChatSeq)
                    /\ \/ pages[asked[Len(asked)]].complete
                       \/ pages[asked[Len(asked)]].cursor = None)
    /\ (sched.pc = "list") ~> (sched.pc # "list")

\* a listing served in three pages, none of the first two reporting it
\* complete, has returned the two keys of the store after three requests
C21_Witness ==
    /\ Listed
    /\ sched.asked = <<1, 2, 3>>
    /\ ~sched.pages[1].complete /\ ~sched.pages[2].complete
    /\ sched.pages[1].keys # <<>>
    /\ sched.keys = ChatSeq

\* C22 as stated: the length test of apply_template passes exactly the
\* rendered titles of MinTitleLen to MaxTitleLen characters; a title of that
\* many characters, whatever the bytes of its characters, is sent with
\* setChatTitle.
C22_GateCountsCharacters ==
    \A t \in Tasks :
        h[t].rendered # None =>
            /\ CharLen(unwrap(h[t].rendered)) \in MinTitleLen..MaxTitleLen
                  <=> h[t].render = "ok"
            /\ CharLen(unwrap(h[t].rendered)) \in MinTitleLen..MaxTitleLen
                  => h[t].pc = "set_title" \/ h[t].calls # <<>>

\* the step turns the stored record under k from enable = false to enable =
\* true
Reenabled(k) ==
    /\ kv[k] # None /\ ~deserialize(unwrap(kv[k])).enable
    /\ kv'[k] # None /\ deserialize(unwrap(kv'[k])).enable
\* the step is a put of task t under k that succeeded
PutUnder(t, k) ==
    /\ PutBy(t)
    /\ LastPut(h'[t].puts).key = k
    /\ LastPut(h'[t].puts).ok

\* C23 as stated: under every interleaving of handlers and scheduled events
\* on one chat, the stored enable turns from false to true only through the
\* put of an enable handler.
C23_ReenabledOnlyByEnable ==
    [][ \A k \in Keys :
          Reenabled(k) => \E t \in Tasks : PutUnder(t, k) /\ Command(t) = "enable"
      ]_vars

\* C23, amended: under every interleaving of handlers and scheduled events on
\* one chat, the stored enable turns from false to true only through the put
\* of an enable handler, or through the put of another handler that had
\* loaded the record while it was stored with enable = true and writes its
\* own copy back; no step of a scheduled event changes the store.
C23_ReenabledByEnableOrStalePut ==
    [][ /\ \A k \in Keys :
             Reenabled(k) =>
                 \E t \in Tasks :
                     /\ PutUnder(t, k)
                     /\ \/ Command(t) = "enable"
                        \/ /\ h[t].load = "found"
                           /\ unwrap(h[t].loaded).enable
                           /\ h[t].before # None
                           /\ deserialize(unwrap(h[t].before)).enable
        /\ sched' # sched => kv' = kv
      ]_vars

\* a disable and a push on the enabled record have both completed; the push
\* had loaded the record before the put of the disable and put its copy
\* after it: the store holds the record of the push, with enable = true
C23_Witness ==
    \E t, u \in Tasks :
        /\ Command(t) = "disable" /\ Completed(t)
        /\ Command(u) = "push" /\ Completed(u)
        /\ LastPut(h[t].puts).ok
        /\ ~deserialize(LastPut(h[t].puts).data).enable
        /\ unwrap(h[u].loaded).enable
        /\ kv[ChatKey(u)] = Some(LastPut(h[u].puts).data)
        /\ StoredGroup(u).enable

\* C24: every record a handler sends to the store, whether the put succeeds or
\* fails, every record the store holds and every Group a handler or the
\* scheduled loop holds in memory has require_admin = true; so a handler
\* that went on to change its Group has asked getChatMember and was answered
\* creator or administrator.
C24_RequireAdminAlways ==
    /\ \A k \in Keys :
          kv[k] # None => deserialize(unwrap(kv[k])).require_admin
    /\ \A t \in Tasks :
          /\ \A i \in 1..Len(h[t].puts) :
                deserialize(h[t].puts[i].data).require_admin
          /\ h[t].group # None => unwrap(h[t].group).require_admin
          /\ h[t].loaded # None => unwrap(h[t].loaded).require_admin
          /\ Granted(t) => h[t].status \in {"creator", "administrator"}
    /\ sched.group # None => unwrap(sched.group).require_admin
    /\ \A i \in Turns :
          Turn(i).group # None => unwrap(Turn(i).group).require_admin

\* a push of an administrator on a stored record has completed, after an
\* earlier request created the record: the store holds the record with the
\* pushed segment and require_admin = true
C24_Witness ==
    \E t \in Tasks :
        /\ Command(t) = "push"
        /\ h[t].load = "found"
        /\ h[t].status = "administrator"
        /\ Completed(t)
        /\ Len(h[t].puts) = 1 /\ h[t].puts[1].ok
        /\ StoredGroup(t).require_admin
        /\ Len(StoredGroup(t).title_segment)
             = Len(unwrap(h[t].loaded).title_segment) + 1

\* the message task t handles during the step: the one it receives, or the
\* one it has
Handled(t) == IF h[t].pc = "idle" THEN h'[t].m ELSE h[t].m

\* C25: the record stored under the key of a chat has the id of that chat; a
\* handler of a message in a chat loads the record stored under the key of
\* that chat, holds a Group with the id of that chat, puts only under the key
\* of that chat and sends setChatTitle only for that chat; and no step of the
\* handler changes what the store holds under the key of another chat or the
\* title of another chat.
C25_ChatIsolation ==
    /\ [](/\ \A c \in Chats :
                kv[group_key(c)] # None => StoredFor(c).id = c
          /\ \A t \in Tasks :
                InGroup(t) =>
                    /\ h[t].load = "found" =>
                          /\ h[t].before # None
                          /\ h[t].loaded = Some(deserialize(unwrap(h[t].before)))
                    /\ h[t].group # None =>
                          unwrap(h[t].group).id = h[t].m.chat.id
                    /\ \A i \in 1..Len(h[t].puts) :
                          /\ h[t].puts[i].key = ChatKey(t)
                          /\ deserialize(h[t].puts[i].data).id = h[t].m.chat.id
                    /\ \A i \in 1..Len(h[t].calls) :
                          h[t].calls[i].chat = h[t].m.chat.id)
    /\ [][ \A t \in Tasks :
              h'[t] # h[t] =>
                  /\ \A c \in Chats :
                        c # Handled(t).chat.id =>
                            /\ kv'[group_key(c)] = kv[group_key(c)]
                            /\ title'[c] = title[c]
                  /\ Handled(t).chat.id \notin Chats =>
                        kv' = kv /\ title' = title ]_vars

\* an enable in the first chat has completed and has set the title of that
\* chat, while the store holds the record of the second chat, with a
\* segment pushed by an earlier request, as that request left it
C25_Witness ==
    \E t \in Tasks :
        /\ Command(t) = "enable"
        /\ h[t].m.chat.id = ChatSeq[1]
        /\ Completed(t)
        /\ h[t].calls # <<>> /\ h[t].reply = "ok"
        /\ StoredGroup(t).id = ChatSeq[1] /\ StoredGroup(t).enable
        /\ kv[group_key(ChatSeq[2])] # None
        /\ StoredFor(ChatSeq[2]).id = ChatSeq[2]
        /\ StoredFor(ChatSeq[2]).title_segment = <<TeamChat, HourTpl>>
        /\ title[ChatSeq[2]] = TeamChat

====
